---- MODULE Spec2Model ----
(***************************************************************************)
(* Model of desktop_assist.agent.run_agent, _process_stream_line and       *)
(* _kill_process_tree together with desktop_assist.logging.SessionLogger.  *)
(* The coordinator (run_agent) is a sequential program whose position is   *)
(* pc; the child process, one grandchild, the stderr drain thread and the  *)
(* user (Ctrl+C) run concurrently with it.                                 *)
(***************************************************************************)
EXTENDS Integers, Sequences, FiniteSets, TLC

(* ------------------------------ bounds -------------------------------- *)
\* number of lines the child writes to stdout in one Run
MaxLines == 2
\* capacity of the stdout pipe, in lines: a write blocks while it is full
PipeLines == 1
\* number of chunks the child writes to stderr in one Run
MaxErr == 1
\* number of user interrupts (Ctrl+C) delivered during one Run
MaxInterrupts == 1
\* number of SessionLogger calls made in all sessions of the directory
MaxCalls == 3
\* number of session log files in the sessions directory
MaxSessions == 2
\* number of tool calls in the log a resume prompt is built from
MaxPairs == 16
\* number of its first tool calls that may be followed by a text record
\* and may have an error result
MaxVaried == 2
\* number of lines of the stdout stream the read loop is fed
MaxStream == 3
\* number of _kill_process_tree calls made on one child
MaxKills == 2
\* number of lines of a command handed to _format_command
MaxCmdLines == 3
\* capacity of the stderr pipe, in chunks: a write blocks while it is full
ErrPipeChunks == 1
\* number of chunks a child may set out to write to stderr
MaxPlanErr == 2

(* ------------------------------ stdout lines -------------------------- *)
\* One content block of a message.  ok = FALSE: the block is not a JSON
\* object (block.get raises AttributeError).
\* id is the tool id ("id" / "tool_use_id"), text the stripped "text".
Block(t, id, x) == [ok |-> TRUE, type |-> t, id |-> id, text |-> x]
BadBlock == [ok |-> FALSE, type |-> "other", id |-> "", text |-> ""]

\* One stdout line, by what json.loads makes of it:
\*   json   "blank" (empty after strip), "invalid" (JSONDecodeError),
\*          "nonobject" (valid JSON, not a dict), "object"
\*   type   data.get("type")
\*   msgOk  data["message"] is absent or a dict with a list "content"
\*   blocks data["message"]["content"]
\*   isErr  data.get("is_error") or data.get("subtype") == "error"
\*   text   data.get("result"), "absent" when the key is missing
Line(j, t, m, bs, e, x) ==
    [json |-> j, type |-> t, msgOk |-> m, blocks |-> bs, isErr |-> e, text |-> x]

L_blank   == Line("blank", "other", TRUE, <<>>, FALSE, "absent")
L_noise   == Line("invalid", "other", TRUE, <<>>, FALSE, "absent")
L_nonobj  == Line("nonobject", "other", TRUE, <<>>, FALSE, "absent")
L_unknown == Line("object", "system", TRUE, <<>>, FALSE, "absent")
L_badmsg  == Line("object", "assistant", FALSE, <<>>, FALSE, "absent")
L_badblk  == Line("object", "assistant", TRUE, <<Block("tool_use", "t1", ""), BadBlock>>, FALSE, "absent")
L_tool    == Line("object", "assistant", TRUE, <<Block("tool_use", "t1", ""), Block("text", "", "hello")>>, FALSE, "absent")
L_toolres == Line("object", "user", TRUE, <<Block("tool_result", "t1", "")>>, FALSE, "absent")
L_ok      == Line("object", "result", TRUE, <<>>, FALSE, "r1")
L_err     == Line("object", "result", TRUE, <<>>, TRUE, "r2")

\* the lines the modelled child may write
LineSet == {L_noise, L_nonobj, L_tool, L_toolres, L_ok, L_err}

\* every class of line the decoder distinguishes
AllLines == LineSet \cup {L_blank, L_unknown, L_badmsg, L_badblk}

\* messages with several blocks: an empty text, two tool calls with a text
\* between them; their two results with a text between them
L_multi   == Line("object", "assistant", TRUE,
                  <<Block("text", "", ""), Block("tool_use", "t2", ""),
                    Block("text", "", "bye"), Block("tool_use", "t1", "")>>, FALSE, "absent")
L_results == Line("object", "user", TRUE,
                  <<Block("tool_result", "t2", ""), Block("text", "", "note"),
                    Block("tool_result", "t1", "")>>, FALSE, "absent")

\* the lines of the streams the read loop is fed
StreamLines == AllLines \cup {L_multi, L_results}

(* ------------------------------ results ------------------------------- *)
\* A returned string / result_preview: its fixed prefix, what it says, and
\* the values interpolated into it (exit code, stderr text).
Res(p, k, x, c, e) == [prefix |-> p, kind |-> k, text |-> x, code |-> c, err |-> e]
NoResult == Res("", "None", "", 0, <<>>)

\* agent.py:217-220
ResultOf_NoMarker(l) ==
    Res("", "result", IF l.text = "absent" THEN "" ELSE l.text, 0, <<>>)

ResultOf(l) ==
    IF l.isErr
    THEN Res("[error] ", "result", IF l.text = "absent" THEN "Unknown error" ELSE l.text, 0, <<>>)
    ELSE Res("", "result", IF l.text = "absent" THEN "" ELSE l.text, 0, <<>>)

LaunchError == Res("[error] ", "launch", "'claude' CLI not found", 0, <<>>)
InterruptedReturn == Res("[error] ", "interrupted", "Agent interrupted by user.", 0, <<>>)
InterruptedPreview == Res("", "interrupted", "[interrupted]", 0, <<>>)
EmptyResponse == Res("[error] ", "empty", "Empty response from Claude CLI.", 0, <<>>)
CliExit(rc, errtext) == Res("[error] ", "cli_exit", "Claude CLI exited with code", rc, errtext)

\* agent.py:380-397: the command line, as its list of words; the fixed
\* flags and the system prompt are the single word "flags"
BuildCommand_NoModel(prompt, model, verbose) ==
    <<"claude", "flags">> \o (IF verbose THEN <<"--verbose">> ELSE <<>>) \o <<prompt>>

BuildCommand(prompt, model, verbose) ==
    <<"claude", "flags">>
      \o (IF model # "None" THEN <<"--model", model>> ELSE <<>>)
      \o (IF verbose THEN <<"--verbose">> ELSE <<>>)
      \o <<prompt>>

\* agent.py:399-400: "[dry-run] " + shlex.join(cmd); the words are kept in
\* the err field
DryRunReturn(cmd) == Res("[dry-run] ", "dry_run", "shlex.join(cmd)", 0, cmd)


(* --------------------------- SessionLogger ---------------------------- *)
\* The free texts a record may carry.  TextNL holds a newline; TextBS
\* holds a backslash followed by the letter n where TextNL has the newline.
TextNL == "two\nlines"
TextBS == "two\\nlines"
Texts == {"hello", TextNL, TextBS}

\* json.dumps of a string (logging.py:111): newline and backslash are
\* escaped, so the serialized record holds no raw newline
JsonEscape_NewlineOnly(x) ==
    IF x = TextNL THEN "two\\nlines" ELSE x

JsonEscape(x) ==
    IF x = TextNL THEN "two\\nlines"
    ELSE IF x = TextBS THEN "two\\\\nlines"
    ELSE x

\* json.loads of a string (logging.py:147, 173): the escapes are undone
JsonUnescape(x) ==
    IF x = "two\\nlines" THEN TextNL
    ELSE IF x = "two\\\\nlines" THEN TextBS
    ELSE x

\* the serialized text spans more than one line of the file
HasRawNewline(x) == x = TextNL

\* json.dumps(fields) (logging.py:111): the line written for a record.
\* The timestamp field is left out.
Dumps(rec) ==
    IF "text" \in DOMAIN rec THEN [rec EXCEPT !.text = JsonEscape(@)] ELSE rec

\* json.loads(raw_line) (logging.py:147, 173) of a line that parses
Loads(line) ==
    IF "text" \in DOMAIN line THEN [line EXCEPT !.text = JsonUnescape(@)] ELSE line

\* json.loads raises JSONDecodeError: the line is a fragment of a record
\* that was broken by a raw newline
Unparseable(line) == "text" \in DOMAIN line /\ HasRawNewline(line.text)

\* A SessionLogger: the lines in its file on disk, the lines still in the
\* file object's buffer, whether the file is closed, its own step counter,
\* and whether a write was attempted on the closed file (ValueError).
NewLogger == [file |-> <<>>, buf |-> <<>>, closed |-> FALSE, step |-> 0, failed |-> FALSE]

\* self._file.write(...) (logging.py:111)
FileWrite(lg, line) == [lg EXCEPT !.buf = Append(@, line)]

\* self._file.flush() (logging.py:112)
FileFlush(lg) == [lg EXCEPT !.file = @ \o lg.buf, !.buf = <<>>]

\* logging.py:109-112
LogWrite_NoFlush(lg, rec) ==
    IF lg.closed THEN [lg EXCEPT !.failed = TRUE]
    ELSE FileWrite(lg, Dumps(rec))

LogWrite(lg, rec) ==
    IF lg.closed THEN [lg EXCEPT !.failed = TRUE]
    ELSE FileFlush(FileWrite(lg, Dumps(rec)))

\* logging.py:51-59
LogStart(lg, prompt, model) ==
    LogWrite(lg, [event |-> "start", prompt |-> prompt, model |-> model])

\* logging.py:64-74
LogToolCall(lg, id) ==
    LogWrite([lg EXCEPT !.step = @ + 1],
             [event |-> "tool_call", step |-> lg.step + 1, tool_id |-> id])

\* logging.py:76-90; elapsed -1 stands for None
LogToolResult(lg, id, is_error, elapsed) ==
    LogWrite(lg, [event |-> "tool_result", step |-> lg.step, tool_id |-> id,
                  is_error |-> is_error, elapsed_s |-> elapsed])

\* logging.py:92-93
LogText(lg, x) == LogWrite(lg, [event |-> "text", text |-> x])

\* logging.py:95-101
LogDone(lg, steps, result) ==
    LogWrite(lg, [event |-> "done", steps |-> steps, result_preview |-> result])

\* logging.py:103-105; closing the file flushes its buffer
LogClose(lg) == IF lg.closed THEN lg ELSE [FileFlush(lg) EXCEPT !.closed = TRUE]

(* ------------------------ _process_stream_line ------------------------ *)
\* The mutable state a decode call works on: step_counter[0],
\* tool_start_times, the session logger (meaningful when has = TRUE), and
\* whether the call raised.
DecState(sc, tm, lg, has) ==
    [step_counter |-> sc, timers |-> tm, lg |-> lg, has |-> has, raised |-> FALSE]

\* tool_start_times[tool_id] = time.monotonic() (agent.py:237)
SetTimer(tm, id, t) == [k \in DOMAIN tm \cup {id} |-> IF k = id THEN t ELSE tm[k]]

\* tool_start_times.pop(tool_id, None) (agent.py:276), the map it leaves
PopTimer_Keep(tm, id) == tm

PopTimer(tm, id) == [k \in DOMAIN tm \ {id} |-> tm[k]]

\* agent.py:226-262, one block of an assistant message
AssistantBlock_NoText(d, b, now) ==
    IF ~b.ok THEN [d EXCEPT !.raised = TRUE]
    ELSE IF b.type = "tool_use"
    THEN [d EXCEPT !.step_counter = @ + 1,
                   !.timers = SetTimer(@, b.id, now),
                   !.lg = IF d.has THEN LogToolCall(@, b.id) ELSE @]
    ELSE d

AssistantBlock(d, b, now) ==
    IF ~b.ok THEN [d EXCEPT !.raised = TRUE]
    ELSE IF b.type = "tool_use"
    THEN [d EXCEPT !.step_counter = @ + 1,
                   !.timers = SetTimer(@, b.id, now),
                   !.lg = IF d.has THEN LogToolCall(@, b.id) ELSE @]
    ELSE IF b.type = "text" /\ b.text # "" /\ d.has
    THEN [d EXCEPT !.lg = LogText(@, b.text)]
    ELSE d

\* agent.py:266-296, one block of a user message (the blocks of the
\* modelled lines carry no "is_error" key: block.get gives False)
UserBlock(d, b, now) ==
    IF ~b.ok THEN [d EXCEPT !.raised = TRUE]
    ELSE IF b.type = "tool_result"
    THEN LET elapsed == IF b.id \in DOMAIN d.timers THEN now - d.timers[b.id] ELSE -1
         IN  [d EXCEPT !.timers = PopTimer(@, b.id),
                       !.lg = IF d.has THEN LogToolResult(@, b.id, FALSE, elapsed) ELSE @]
    ELSE d

\* the for loops of agent.py:226 and 266; a raise ends the loop
RECURSIVE ProcessBlocks(_, _, _, _)
ProcessBlocks(d, bs, isAssistant, now) ==
    IF bs = <<>> \/ d.raised THEN d
    ELSE ProcessBlocks(IF isAssistant THEN AssistantBlock(d, Head(bs), now)
                                      ELSE UserBlock(d, Head(bs), now),
                       Tail(bs), isAssistant, now)

\* agent.py:187-298: the state after the call and the returned value
\* (NoResult stands for None)
ProcessStreamLine(l, d, now) ==
    IF l.json \in {"blank", "invalid"} THEN [st |-> d, ret |-> NoResult]
    ELSE IF l.json = "nonobject" THEN [st |-> [d EXCEPT !.raised = TRUE], ret |-> NoResult]
    ELSE IF l.type = "result" THEN [st |-> d, ret |-> ResultOf(l)]
    ELSE IF ~l.msgOk THEN [st |-> [d EXCEPT !.raised = TRUE], ret |-> NoResult]
    ELSE IF l.type \in {"assistant", "user"}
    THEN [st |-> ProcessBlocks(d, l.blocks, l.type = "assistant", now), ret |-> NoResult]
    ELSE [st |-> d, ret |-> NoResult]

\* A KeyboardInterrupt raised inside the handling of one block: the states
\* between the statements that change state.  agent.py:235-255: the step
\* counter is incremented, then the timer is set, then (after the summary
\* is printed) the record is written; agent.py:276-296: the timer is
\* popped, then (after the outcome is printed) the record is written.
BlockCuts(d, b, isAssistant, now) ==
    IF ~b.ok THEN {}
    ELSE IF isAssistant /\ b.type = "tool_use"
    THEN {[d EXCEPT !.step_counter = @ + 1],
          [d EXCEPT !.step_counter = @ + 1, !.timers = SetTimer(@, b.id, now)]}
    ELSE IF ~isAssistant /\ b.type = "tool_result"
    THEN {[d EXCEPT !.timers = PopTimer(@, b.id)]}
    ELSE {}

\* the states in which a KeyboardInterrupt may leave the loops of
\* agent.py:226 and 266: before a block, inside it, or after the last one
RECURSIVE LoopCuts(_, _, _, _)
LoopCuts(d, bs, isAssistant, now) ==
    IF bs = <<>> THEN {d}
    ELSE LET b == Head(bs)
             full == IF isAssistant THEN AssistantBlock(d, b, now) ELSE UserBlock(d, b, now)
         IN  {d} \cup BlockCuts(d, b, isAssistant, now)
                 \cup (IF full.raised THEN {} ELSE LoopCuts(full, Tail(bs), isAssistant, now))

\* agent.py:187-298 left by a KeyboardInterrupt: the states the call may
\* leave behind
InterruptedDecode(l, d, now) ==
    IF l.json = "object" /\ l.type \in {"assistant", "user"} /\ l.msgOk
    THEN LoopCuts(d, l.blocks, l.type = "assistant", now)
    ELSE {d}

(* ------------------------------- state -------------------------------- *)
VARIABLES
    pc,             \* position of the coordinator in run_agent
    exc,            \* exception run_agent propagated to its caller ("none")
    ret,            \* value run_agent returned
    args,           \* arguments of the call
    has,            \* session_logger is not None
    lg,             \* the SessionLogger
    final_result, step_counter, timers, interrupted,
    pending,        \* exception in flight through the finally block
    curLine,        \* raw_line, the line being decoded (L_blank: none)
    now,            \* time.monotonic(), advanced by every readline()
    stderr_chunks, thr,   \* the drain thread and its list
    child, gc,      \* the child process and a grandchild in its group
    outBuf, nOut,   \* stdout pipe content, number of lines written
    errBuf,         \* everything written to the stderr pipe
    sigLog,         \* what _kill_process_tree did, in order
    nInt,           \* interrupts delivered
    joined,         \* join() returned because the drain thread finished
    sessions,       \* the sessions directory: the log files of earlier sessions
    sid,            \* session id of the open SessionLogger
    calls,          \* records of the logger calls that returned, in call order
    clock,          \* datetime.now(), in whole seconds
    resume,         \* what build_resume_prompt returned
    fed,            \* the lines written to stdout so far, in order
    kills,          \* outcomes of the _kill_process_tree calls that returned
    dec,            \* the last direct call of _process_stream_line
    fmt,            \* the last call of _format_command
    want,           \* what the child has yet to write: stdout lines, stderr chunks
    errRead         \* chunks of errBuf the drain thread's read() has taken

\* the variables of the session-log library and decoder specifications
callvars == <<kills, dec, fmt, want, errRead>>
libvars == <<sessions, sid, calls, clock, resume, fed, callvars>>

\* the variables of a Run
runvars == <<pc, exc, ret, args, has, lg, final_result, step_counter, timers,
             interrupted, pending, curLine, now, stderr_chunks, thr, child, gc,
             outBuf, nOut, errBuf, sigLog, nInt, joined>>

vars == <<runvars, libvars>>

coord == <<pc, exc, ret, args, has, lg, final_result, step_counter, timers,
           interrupted, pending, curLine, now, stderr_chunks, sigLog, joined, libvars>>

NoProc == [state |-> "none", rc |-> 0, out |-> FALSE, err |-> FALSE]
EmptyMap == [k \in {} |-> 0]

\* the library variables when only a Run is looked at
NoSession == <<0, 0>>
NoPrompt == [status |-> "none", task |-> "", lines |-> <<>>, model |-> "None"]
NoCall == [made |-> FALSE]
NoPlan == [out |-> 0, err |-> 0]
LibIdle ==
    /\ sessions = <<>> /\ sid = NoSession /\ calls = <<>> /\ clock = 0
    /\ resume = NoPrompt /\ fed = <<>>
    /\ kills = <<>> /\ dec = NoCall /\ fmt = NoCall
    /\ want = NoPlan /\ errRead = 0

\* no Run has been started
RunIdle ==
    /\ pc = "start" /\ exc = "none" /\ ret = NoResult
    /\ args = [log |-> FALSE, dry_run |-> FALSE, timeout |-> "None",
               model |-> "None", verbose |-> FALSE]
    /\ has = FALSE /\ lg = NewLogger
    /\ final_result = NoResult /\ step_counter = 0 /\ timers = EmptyMap
    /\ interrupted = FALSE /\ pending = "none" /\ curLine = L_blank /\ now = 0
    /\ stderr_chunks = <<>> /\ thr = "none"
    /\ child = NoProc /\ gc = NoProc
    /\ outBuf = <<>> /\ nOut = 0 /\ errBuf = <<>>
    /\ sigLog = <<>> /\ nInt = 0 /\ joined = FALSE

Init == RunIdle /\ LibIdle

Ended == pc \in {"returned", "raised"}
RunActive == pc \notin {"start", "returned", "raised"}

\* stdout / stderr reach EOF when no process holds the write end
OutEOF == ~child.out /\ ~gc.out
ErrEOF == ~child.err /\ ~gc.err

Exited(p, rc) == [p EXCEPT !.state = "zombie", !.rc = rc, !.out = FALSE, !.err = FALSE]
Dead(p) == [p EXCEPT !.state = "dead", !.out = FALSE, !.err = FALSE]

\* os.killpg(pgid, sig): every running process of the group gets sig.
\* SIGKILL ends it; SIGTERM ends it (dies = TRUE) unless the process
\* ignores the signal or does not finish within the grace period.
SignalChild(p, sig, dies) ==
    IF p.state = "running" /\ (sig = "SIGKILL" \/ dies)
    THEN Exited(p, IF sig = "SIGKILL" THEN -9 ELSE -15) ELSE p
SignalGc(p, sig, dies) ==
    IF p.state = "running" /\ (sig = "SIGKILL" \/ dies) THEN Dead(p) ELSE p

(* ------------------------------ run_agent ----------------------------- *)
\* the model selectors a call may pass ("None": no model given)
Models == {"None", "sonnet"}

\* agent.py:337-376: the call.  run_agent has no timeout parameter, so a
\* call that passes one raises TypeError before anything else happens.
\* With log and not dry_run the SessionLogger is created and log_start
\* called, outside any try statement: an OSError from open() (agent.py:375,
\* logging.py:46) or from the write of the start record (agent.py:376,
\* logging.py:111-112) leaves run_agent.  model and verbose only shape the
\* command line, which is looked at for dry runs only, so they are drawn
\* for dry runs only.
Call ==
    /\ pc = "start"
    /\ \E l \in BOOLEAN, d \in BOOLEAN, t \in {"None", "1.0"} :
       \E m \in IF d THEN Models ELSE {"None"}, v \in IF d THEN BOOLEAN ELSE {FALSE} :
       \E io \in IF l /\ ~d /\ t = "None" THEN {"ok", "open_fails", "write_fails"} ELSE {"ok"} :
        /\ args' = [log |-> l, dry_run |-> d, timeout |-> t, model |-> m, verbose |-> v]
        /\ IF t # "None"
           THEN pc' = "raised" /\ exc' = "TypeError" /\ UNCHANGED <<has, lg>>
           ELSE IF io = "open_fails"
           THEN pc' = "raised" /\ exc' = "OSError" /\ UNCHANGED <<has, lg>>
           ELSE IF io = "write_fails"
           THEN pc' = "raised" /\ exc' = "OSError" /\ has' = TRUE /\ lg' = NewLogger
           ELSE /\ pc' = "build_cmd" /\ exc' = exc
                /\ has' = (l /\ ~d)
                /\ lg' = IF l /\ ~d THEN LogStart(NewLogger, "task", m) ELSE lg
    /\ UNCHANGED <<ret, final_result, step_counter, timers, interrupted, pending,
                   curLine, now, stderr_chunks, thr, child, gc, outBuf, nOut,
                   errBuf, sigLog, nInt, joined, libvars>>

\* agent.py:378-400
BuildCmd ==
    /\ pc = "build_cmd"
    /\ IF args.dry_run
       THEN /\ pc' = "returned"
            /\ ret' = DryRunReturn(BuildCommand("task", args.model, args.verbose))
       ELSE pc' = "popen" /\ ret' = ret
    /\ UNCHANGED <<exc, args, has, lg, final_result, step_counter, timers, interrupted,
                   pending, curLine, now, stderr_chunks, thr, child, gc, outBuf,
                   nOut, errBuf, sigLog, nInt, joined, libvars>>

\* agent.py:420-421: subprocess.Popen succeeds
PopenOk ==
    /\ pc = "popen"
    /\ child' = [state |-> "running", rc |-> 0, out |-> TRUE, err |-> TRUE]
    /\ pc' = "thread_start"
    /\ UNCHANGED <<exc, ret, args, has, lg, final_result, step_counter, timers,
                   interrupted, pending, curLine, now, stderr_chunks, thr, gc,
                   outBuf, nOut, errBuf, sigLog, nInt, joined, libvars>>

\* agent.py:420-430: Popen raises.  FileNotFoundError is caught;
\* PermissionError (binary found but not executable) is not.
PopenFails ==
    /\ pc = "popen"
    /\ \E e \in {"FileNotFoundError", "PermissionError"} :
         IF e = "FileNotFoundError"
         THEN IF has THEN pc' = "lf_log_done" /\ UNCHANGED <<exc, ret>>
                     ELSE pc' = "returned" /\ ret' = LaunchError /\ exc' = exc
         ELSE pc' = "raised" /\ exc' = e /\ ret' = ret
    /\ UNCHANGED <<args, has, lg, final_result, step_counter, timers, interrupted,
                   pending, curLine, now, stderr_chunks, thr, child, gc, outBuf,
                   nOut, errBuf, sigLog, nInt, joined, libvars>>

\* agent.py:427-428
LaunchFailLogDone ==
    /\ pc = "lf_log_done"
    /\ lg' = LogDone(lg, 0, LaunchError)
    /\ pc' = "lf_close"
    /\ UNCHANGED <<exc, ret, args, has, final_result, step_counter, timers, interrupted,
                   pending, curLine, now, stderr_chunks, thr, child, gc, outBuf,
                   nOut, errBuf, sigLog, nInt, joined, libvars>>

\* agent.py:429-430
LaunchFailClose ==
    /\ pc = "lf_close"
    /\ lg' = LogClose(lg)
    /\ pc' = "returned" /\ ret' = LaunchError
    /\ UNCHANGED <<exc, args, has, final_result, step_counter, timers, interrupted,
                   pending, curLine, now, stderr_chunks, thr, child, gc, outBuf,
                   nOut, errBuf, sigLog, nInt, joined, libvars>>

\* agent.py:432-451: locals are set up and the drain thread is started
ThreadStart ==
    /\ pc = "thread_start"
    /\ thr' = "reading"
    /\ pc' = "read"
    /\ UNCHANGED <<exc, ret, args, has, lg, final_result, step_counter, timers,
                   interrupted, pending, curLine, now, stderr_chunks, child, gc,
                   outBuf, nOut, errBuf, sigLog, nInt, joined, libvars>>

\* agent.py:457-459: readline() returns the next line, or '' at EOF
ReadLine ==
    /\ pc = "read"
    /\ \/ /\ outBuf # <<>>
          /\ curLine' = Head(outBuf) /\ outBuf' = Tail(outBuf)
          /\ now' = now + 1
          /\ pc' = "process"
       \/ /\ outBuf = <<>> /\ OutEOF
          /\ pc' = "finally"
          /\ UNCHANGED <<curLine, outBuf, now>>
    /\ UNCHANGED <<exc, ret, args, has, lg, final_result, step_counter, timers,
                   interrupted, pending, stderr_chunks, thr, child, gc, nOut,
                   errBuf, sigLog, nInt, joined, libvars>>

\* agent.py:460-468: the line is decoded; an exception leaves the loop
\* through the finally block
Process ==
    /\ pc = "process"
    /\ LET r == ProcessStreamLine(curLine, DecState(step_counter, timers, lg, has), now)
       IN  /\ step_counter' = r.st.step_counter
           /\ timers' = r.st.timers
           /\ lg' = r.st.lg
           /\ IF r.st.raised
              THEN pending' = "AttributeError" /\ pc' = "finally"
                   /\ final_result' = final_result
              ELSE pending' = pending /\ pc' = "read"
                   /\ final_result' = IF r.ret # NoResult THEN r.ret ELSE final_result
    /\ curLine' = L_blank
    /\ UNCHANGED <<exc, ret, args, has, interrupted, now, stderr_chunks,
                   thr, child, gc, outBuf, nOut, errBuf, sigLog, nInt, joined, libvars>>

\* agent.py:469-470: KeyboardInterrupt caught by the except clause
HandlerSet ==
    /\ pc = "h_set"
    /\ interrupted' = TRUE
    /\ pc' = IF has THEN "h_log_done" ELSE "finally"
    /\ UNCHANGED <<exc, ret, args, has, lg, final_result, step_counter, timers,
                   pending, curLine, now, stderr_chunks, thr, child, gc, outBuf,
                   nOut, errBuf, sigLog, nInt, joined, libvars>>

\* HandlerLogDone with the log_done call of agent.py:474 left out
HandlerLogDone_Skip ==
    /\ pc = "h_log_done"
    /\ lg' = lg
    /\ pc' = "h_close"
    /\ UNCHANGED <<exc, ret, args, has, final_result, step_counter, timers, interrupted,
                   pending, curLine, now, stderr_chunks, thr, child, gc, outBuf,
                   nOut, errBuf, sigLog, nInt, joined, libvars>>

\* agent.py:472-474
HandlerLogDone ==
    /\ pc = "h_log_done"
    /\ lg' = LogDone(lg, step_counter, InterruptedPreview)
    /\ pc' = "h_close"
    /\ UNCHANGED <<exc, ret, args, has, final_result, step_counter, timers, interrupted,
                   pending, curLine, now, stderr_chunks, thr, child, gc, outBuf,
                   nOut, errBuf, sigLog, nInt, joined, libvars>>

\* agent.py:475
HandlerClose ==
    /\ pc = "h_close"
    /\ lg' = LogClose(lg)
    /\ pc' = "finally"
    /\ UNCHANGED <<exc, ret, args, has, final_result, step_counter, timers, interrupted,
                   pending, curLine, now, stderr_chunks, thr, child, gc, outBuf,
                   nOut, errBuf, sigLog, nInt, joined, libvars>>

\* leaving the finally block: an exception in flight propagates to the
\* caller, otherwise control continues at agent.py:482
AfterFinally(pend) == IF pend # "none" THEN "raised" ELSE "after"

\* agent.py:476-480 and 308: proc.poll() reaps a child that has exited; a
\* child still running is handed to _kill_process_tree, which reads
\* sys.platform (its only read that matters, so its value is drawn here)
Finally ==
    /\ pc = "finally"
    /\ IF child.state = "running"
       THEN /\ \E pf \in {"posix", "win32"} :
                 pc' = IF pf = "win32" THEN "kpt_winkill" ELSE "kpt_term"
            /\ UNCHANGED <<child, exc>>
       ELSE /\ child' = [child EXCEPT !.state = "reaped"]
            /\ pc' = AfterFinally(pending)
            /\ exc' = pending
    /\ UNCHANGED <<ret, args, has, lg, final_result, step_counter, timers, interrupted,
                   pending, curLine, now, stderr_chunks, thr, gc, outBuf, nOut,
                   errBuf, sigLog, nInt, joined, libvars>>

(* -------------------------- _kill_process_tree ------------------------ *)
\* agent.py:312, 319: the exceptions of the group lookup and of killpg
\* that the except clauses swallow
Swallowed_PermissionOnly(e) == e = "PermissionError"

Swallowed(e) == e \in {"ProcessLookupError", "PermissionError"}

\* os.killpg(os.getpgid(proc.pid), sig) (agent.py:310-311, 318): the
\* signal is sent while the pid exists (the child runs or is a zombie);
\* the lookup raises ProcessLookupError once the child has been reaped and
\* may raise it for a zombie, for whose group killpg may also raise
\* PermissionError
KillpgOutcomes(p) ==
    (IF p.state \in {"running", "zombie"} THEN {"sent"} ELSE {})
      \cup (IF p.state \in {"zombie", "reaped"} THEN {"ProcessLookupError"} ELSE {})
      \cup (IF p.state = "zombie" THEN {"PermissionError"} ELSE {})

\* agent.py:309-313: SIGTERM to the process group; an exception that is
\* not swallowed leaves _kill_process_tree
KptTerm ==
    /\ pc = "kpt_term"
    /\ \E r \in KillpgOutcomes(child) :
         IF r = "sent"
         THEN /\ \E cd \in BOOLEAN : child' = SignalChild(child, "SIGTERM", cd)
              /\ \E gd \in BOOLEAN : gc' = SignalGc(gc, "SIGTERM", gd)
              /\ sigLog' = Append(sigLog, "SIGTERM")
              /\ pc' = "kpt_wait3" /\ exc' = exc
         ELSE /\ UNCHANGED <<child, gc, sigLog>>
              /\ IF Swallowed(r) THEN pc' = "kpt_wait3" /\ exc' = exc
                                 ELSE pc' = "raised" /\ exc' = r
    /\ UNCHANGED <<ret, args, has, lg, final_result, step_counter, timers,
                   interrupted, pending, curLine, now, stderr_chunks, thr, outBuf,
                   nOut, errBuf, nInt, joined, libvars>>

\* KptWait3 with the escalation not skipped when the child has exited
KptWait3_AlwaysEscalate ==
    /\ pc = "kpt_wait3"
    /\ IF child.state \in {"zombie", "reaped"}
       THEN sigLog' = Append(sigLog, "exited_in_grace")
       ELSE sigLog' = Append(sigLog, "grace_expired")
    /\ pc' = "kpt_kill"
    /\ UNCHANGED <<child, exc>>
    /\ UNCHANGED <<ret, args, has, lg, final_result, step_counter, timers, interrupted,
                   pending, curLine, now, stderr_chunks, thr, gc, outBuf, nOut,
                   errBuf, nInt, joined, libvars>>

\* agent.py:314-316: proc.wait(timeout=3) returns when the child has
\* exited (and reaps it), or raises TimeoutExpired while it is running
KptWait3 ==
    /\ pc = "kpt_wait3"
    /\ IF child.state \in {"zombie", "reaped"}
       THEN /\ child' = [child EXCEPT !.state = "reaped"]
            /\ sigLog' = Append(sigLog, "exited_in_grace")
            /\ pc' = AfterFinally(pending)
            /\ exc' = pending
       ELSE /\ sigLog' = Append(sigLog, "grace_expired")
            /\ pc' = "kpt_kill"
            /\ UNCHANGED <<child, exc>>
    /\ UNCHANGED <<ret, args, has, lg, final_result, step_counter, timers, interrupted,
                   pending, curLine, now, stderr_chunks, thr, gc, outBuf, nOut,
                   errBuf, nInt, joined, libvars>>

\* agent.py:317-320: SIGKILL to the process group
KptKill ==
    /\ pc = "kpt_kill"
    /\ \E r \in KillpgOutcomes(child) :
         IF r = "sent"
         THEN /\ child' = SignalChild(child, "SIGKILL", TRUE)
              /\ gc' = SignalGc(gc, "SIGKILL", TRUE)
              /\ sigLog' = Append(sigLog, "SIGKILL")
              /\ pc' = "kpt_wait2" /\ exc' = exc
         ELSE /\ UNCHANGED <<child, gc, sigLog>>
              /\ IF Swallowed(r) THEN pc' = "kpt_wait2" /\ exc' = exc
                                 ELSE pc' = "raised" /\ exc' = r
    /\ UNCHANGED <<ret, args, has, lg, final_result, step_counter, timers,
                   interrupted, pending, curLine, now, stderr_chunks, thr, outBuf,
                   nOut, errBuf, nInt, joined, libvars>>

\* agent.py:321: proc.wait(timeout=2); the child was killed or had exited
KptWait2 ==
    /\ pc = "kpt_wait2"
    /\ child.state \in {"zombie", "reaped"}
    /\ child' = [child EXCEPT !.state = "reaped"]
    /\ sigLog' = Append(sigLog, "reap_wait")
    /\ pc' = AfterFinally(pending)
    /\ exc' = pending
    /\ UNCHANGED <<ret, args, has, lg, final_result, step_counter, timers, interrupted,
                   pending, curLine, now, stderr_chunks, thr, gc, outBuf, nOut,
                   errBuf, nInt, joined, libvars>>

\* agent.py:322-323: proc.kill() on Windows terminates the child only; it
\* does nothing when the child's return code is known
KptWinKill ==
    /\ pc = "kpt_winkill"
    /\ child' = IF child.state = "running" THEN Exited(child, 1) ELSE child
    /\ sigLog' = IF child.state = "reaped" THEN sigLog
                 ELSE Append(sigLog, "TerminateProcess")
    /\ pc' = "kpt_winwait"
    /\ UNCHANGED <<exc, ret, args, has, lg, final_result, step_counter, timers,
                   interrupted, pending, curLine, now, stderr_chunks, thr, gc,
                   outBuf, nOut, errBuf, nInt, joined, libvars>>

\* agent.py:324: proc.wait(timeout=5)
KptWinWait ==
    /\ pc = "kpt_winwait"
    /\ child.state \in {"zombie", "reaped"}
    /\ child' = [child EXCEPT !.state = "reaped"]
    /\ sigLog' = Append(sigLog, "reap_wait")
    /\ pc' = AfterFinally(pending)
    /\ exc' = pending
    /\ UNCHANGED <<ret, args, has, lg, final_result, step_counter, timers, interrupted,
                   pending, curLine, now, stderr_chunks, thr, gc, outBuf, nOut,
                   errBuf, nInt, joined, libvars>>

(* ----------------------- run_agent, after the loop -------------------- *)
\* After without the early return of agent.py:482-483: an interrupted Run
\* goes on to agent.py:485-510
After_NoEarlyReturn ==
    /\ pc = "after"
    /\ pc' = "wait" /\ ret' = ret
    /\ UNCHANGED <<exc, args, has, lg, final_result, step_counter, timers, interrupted,
                   pending, curLine, now, stderr_chunks, thr, child, gc, outBuf,
                   nOut, errBuf, sigLog, nInt, joined, libvars>>

\* agent.py:482-483
After ==
    /\ pc = "after"
    /\ IF interrupted THEN pc' = "returned" /\ ret' = InterruptedReturn
                      ELSE pc' = "wait" /\ ret' = ret
    /\ UNCHANGED <<exc, args, has, lg, final_result, step_counter, timers, interrupted,
                   pending, curLine, now, stderr_chunks, thr, child, gc, outBuf,
                   nOut, errBuf, sigLog, nInt, joined, libvars>>

\* agent.py:485: proc.wait() returns once the child has exited
Wait ==
    /\ pc = "wait"
    /\ child.state \in {"zombie", "reaped"}
    /\ child' = [child EXCEPT !.state = "reaped"]
    /\ pc' = "join"
    /\ UNCHANGED <<exc, ret, args, has, lg, final_result, step_counter, timers,
                   interrupted, pending, curLine, now, stderr_chunks, thr, gc,
                   outBuf, nOut, errBuf, sigLog, nInt, joined, libvars>>

\* agent.py:486: stderr_thread.join(timeout=5) returns when the thread has
\* finished, or after 5 seconds while the thread is still blocked in
\* read() because some process holds the stderr pipe open
Join ==
    /\ pc = "join"
    /\ thr = "done" \/ (thr = "reading" /\ ~ErrEOF)
    /\ joined' = (thr = "done")
    /\ pc' = "result"
    /\ UNCHANGED <<exc, ret, args, has, lg, final_result, step_counter, timers,
                   interrupted, pending, curLine, now, stderr_chunks, thr, child,
                   gc, outBuf, nOut, errBuf, sigLog, nInt, libvars>>

\* "".join(stderr_chunks)
RECURSIVE JoinChunks(_)
JoinChunks(cs) == IF cs = <<>> THEN <<>> ELSE Head(cs) \o JoinChunks(Tail(cs))

\* FinalOutcome with the captured stderr text left out of the message
FinalOutcome_NoStderr(fr, rc, chunks) ==
    IF fr # NoResult THEN fr
    ELSE IF rc # 0 THEN CliExit(rc, <<>>)
    ELSE EmptyResponse

\* FinalOutcome with the captured stderr text added to every outcome
FinalOutcome_StderrAlways(fr, rc, chunks) ==
    IF fr # NoResult THEN [fr EXCEPT !.err = JoinChunks(chunks)]
    ELSE IF rc # 0 THEN CliExit(rc, JoinChunks(chunks))
    ELSE [EmptyResponse EXCEPT !.err = JoinChunks(chunks)]

\* agent.py:495-505
FinalOutcome(fr, rc, chunks) ==
    IF fr # NoResult THEN fr
    ELSE IF rc # 0 THEN CliExit(rc, JoinChunks(chunks))
    ELSE EmptyResponse

\* agent.py:488-507
Result ==
    /\ pc = "result"
    /\ ret' = FinalOutcome(final_result, child.rc, stderr_chunks)
    /\ pc' = IF has THEN "log_done" ELSE "returned"
    /\ UNCHANGED <<exc, args, has, lg, final_result, step_counter, timers, interrupted,
                   pending, curLine, now, stderr_chunks, thr, child, gc, outBuf,
                   nOut, errBuf, sigLog, nInt, joined, libvars>>

\* agent.py:508
RunLogDone ==
    /\ pc = "log_done"
    /\ lg' = LogDone(lg, step_counter, ret)
    /\ pc' = "close"
    /\ UNCHANGED <<exc, ret, args, has, final_result, step_counter, timers, interrupted,
                   pending, curLine, now, stderr_chunks, thr, child, gc, outBuf,
                   nOut, errBuf, sigLog, nInt, joined, libvars>>

\* agent.py:509-512
RunClose ==
    /\ pc = "close"
    /\ lg' = LogClose(lg)
    /\ pc' = "returned"
    /\ UNCHANGED <<exc, ret, args, has, final_result, step_counter, timers, interrupted,
                   pending, curLine, now, stderr_chunks, thr, child, gc, outBuf,
                   nOut, errBuf, sigLog, nInt, joined, libvars>>

(* ------------------------------ the user ------------------------------ *)
InTryBody == {"read", "process"}
InHandler == {"h_set", "h_log_done", "h_close"}
InFinally == {"finally", "kpt_term", "kpt_wait3", "kpt_kill", "kpt_wait2",
              "kpt_winkill", "kpt_winwait"}

\* Ctrl+C: KeyboardInterrupt is raised in the coordinator wherever it is.
\* agent.py:452-480: in the try body the except clause catches it; in the
\* handler it passes through the finally block; in the finally block and
\* everywhere outside the try statement it propagates to the caller.
\* Raised while a line is decoded (agent.py:460-466), it leaves the decoder
\* at any of its statements.
Interrupt ==
    /\ RunActive
    /\ nInt < MaxInterrupts
    /\ nInt' = nInt + 1
    /\ IF pc \in InTryBody THEN pc' = "h_set" /\ UNCHANGED <<pending, exc>>
       ELSE IF pc \in InHandler
       THEN pc' = "finally" /\ pending' = "KeyboardInterrupt" /\ exc' = exc
       ELSE pc' = "raised" /\ exc' = "KeyboardInterrupt" /\ pending' = pending
    /\ IF pc = "process"
       THEN \E st \in InterruptedDecode(curLine, DecState(step_counter, timers, lg, has), now) :
                step_counter' = st.step_counter /\ timers' = st.timers /\ lg' = st.lg
       ELSE UNCHANGED <<lg, step_counter, timers>>
    /\ UNCHANGED <<ret, args, has, final_result, interrupted,
                   curLine, now, stderr_chunks, thr, child, gc, outBuf, nOut,
                   errBuf, sigLog, joined, libvars>>

(* -------------------------- the drain thread -------------------------- *)
\* agent.py:444-446: proc.stderr.read() returns everything at EOF
DrainStderr ==
    /\ RunActive
    /\ thr = "reading"
    /\ ErrEOF
    /\ stderr_chunks' = Append(stderr_chunks, errBuf)
    /\ thr' = "done"
    /\ UNCHANGED <<pc, exc, ret, args, has, lg, final_result, step_counter, timers,
                   interrupted, pending, curLine, now, child, gc, outBuf, nOut,
                   errBuf, sigLog, nInt, joined, libvars>>

(* ------------------------ the child and its group --------------------- *)
ChildRuns == RunActive /\ child.state = "running"

ChildWrite ==
    /\ ChildRuns /\ child.out /\ nOut < MaxLines /\ Len(outBuf) < PipeLines
    /\ \E l \in LineSet : outBuf' = Append(outBuf, l)
    /\ nOut' = nOut + 1
    /\ UNCHANGED <<coord, thr, child, gc, errBuf, nInt>>

ChildWriteErr ==
    /\ ChildRuns /\ child.err /\ Len(errBuf) < MaxErr
    /\ errBuf' = Append(errBuf, "e")
    /\ UNCHANGED <<coord, thr, child, gc, outBuf, nOut, nInt>>

ChildCloseStdout ==
    /\ ChildRuns /\ child.out
    /\ child' = [child EXCEPT !.out = FALSE]
    /\ UNCHANGED <<coord, thr, gc, outBuf, nOut, errBuf, nInt>>

\* the child starts a process in its group, which inherits the pipes it
\* does not redirect
ChildSpawn ==
    /\ ChildRuns /\ gc.state = "none"
    /\ \E o \in BOOLEAN, e \in BOOLEAN :
         gc' = [state |-> "running", rc |-> 0,
                out |-> (o /\ child.out), err |-> (e /\ child.err)]
    /\ UNCHANGED <<coord, thr, child, outBuf, nOut, errBuf, nInt>>

ChildExit ==
    /\ ChildRuns
    /\ \E rc \in {0, 1} : child' = Exited(child, rc)
    /\ UNCHANGED <<coord, thr, gc, outBuf, nOut, errBuf, nInt>>

GcExit ==
    /\ RunActive /\ gc.state = "running"
    /\ gc' = Dead(gc)
    /\ UNCHANGED <<coord, thr, child, outBuf, nOut, errBuf, nInt>>

Next ==
    \/ Call \/ BuildCmd \/ PopenOk \/ PopenFails \/ LaunchFailLogDone \/ LaunchFailClose
    \/ ThreadStart \/ ReadLine \/ Process
    \/ HandlerSet \/ HandlerLogDone \/ HandlerClose
    \/ Finally \/ KptTerm \/ KptWait3 \/ KptKill \/ KptWait2 \/ KptWinKill \/ KptWinWait
    \/ After \/ Wait \/ Join \/ Result \/ RunLogDone \/ RunClose
    \/ Interrupt \/ DrainStderr
    \/ ChildWrite \/ ChildWriteErr \/ ChildCloseStdout \/ ChildSpawn \/ ChildExit \/ GcExit

Spec == Init /\ [][Next]_vars

(* ------------------- the session log as a library --------------------- *)
\* logging.py:162-174: the events of a log file, or JSONDecodeError
ReplaySession(file) ==
    IF \E i \in DOMAIN file : Unparseable(file[i])
    THEN [ok |-> FALSE, events |-> <<>>]
    ELSE [ok |-> TRUE, events |-> [i \in DOMAIN file |-> Loads(file[i])]]

\* session ids are file names '<timestamp>_<suffix>.jsonl': their order is
\* the order of the timestamps, then of the suffixes
IdLess(a, b) == a[1] < b[1] \/ (a[1] = b[1] /\ a[2] < b[2])

\* sorted(d.glob("*.jsonl"), reverse=True) (logging.py:131)
RECURSIVE SortedReverse(_)
SortedReverse(dir) ==
    IF dir = {} THEN <<>>
    ELSE LET top == CHOOSE x \in dir : \A y \in dir \ {x} : IdLess(y.id, x.id)
         IN  <<top>> \o SortedReverse(dir \ {top})

\* logging.py:143-155: the loop over the lines of one file; a line that
\* does not parse ends the reading
RECURSIVE ScanSession(_, _)
ScanSession(file, summary) ==
    IF file = <<>> \/ Unparseable(Head(file)) THEN summary
    ELSE LET evt == Loads(Head(file))
         IN  ScanSession(Tail(file),
                IF evt.event = "start" THEN [summary EXCEPT !.prompt = evt.prompt]
                ELSE IF evt.event = "done"
                THEN [summary EXCEPT !.steps = evt.steps, !.status = "done"]
                ELSE summary)

\* logging.py:132-158: the summary of one file (elapsed_s travels with
\* steps and is left out)
SessionSummary(f) ==
    LET got == ScanSession(f.file, [id |-> f.id, prompt |-> "?", steps |-> 0,
                                    status |-> "unknown"])
    IN  IF got.status = "unknown" THEN [got EXCEPT !.status = "incomplete"] ELSE got

\* logging.py:124-159
ListSessions(dir) ==
    LET files == SortedReverse({dir[i] : i \in DOMAIN dir})
    IN  [i \in DOMAIN files |-> SessionSummary(files[i])]

\* One call of the SessionLogger API: the method, its string argument (model,
\* tool id or text), its number (steps) and the result passed to log_done.
ApiCall(op, x, n, r) == [op |-> op, s |-> x, n |-> n, r |-> r]

\* the record a call hands to _write when the logger's _step is step
\* (logging.py:51-101)
CallRecord(c, step) ==
    IF c.op = "log_start" THEN [event |-> "start", prompt |-> "task", model |-> c.s]
    ELSE IF c.op = "log_tool_call"
    THEN [event |-> "tool_call", step |-> step + 1, tool_id |-> c.s]
    ELSE IF c.op = "log_tool_result"
    THEN [event |-> "tool_result", step |-> step, tool_id |-> c.s,
          is_error |-> FALSE, elapsed_s |-> -1]
    ELSE IF c.op = "log_text" THEN [event |-> "text", text |-> c.s]
    ELSE [event |-> "done", steps |-> c.n, result_preview |-> c.r]

\* the records of a sequence of calls, the logger's _step starting at step
RECURSIVE CallRecords(_, _)
CallRecords(cs, step) ==
    IF cs = <<>> THEN <<>>
    ELSE <<CallRecord(Head(cs), step)>>
         \o CallRecords(Tail(cs), IF Head(cs).op = "log_tool_call" THEN step + 1 ELSE step)

\* the random suffixes of a session id (os.urandom(4).hex(), logging.py:29)
Suffixes == {1, 2}

\* the sessions directory: the files of the earlier sessions and the file
\* of the open logger, in the order the sessions were started.
\* calls and closed are the history of a session (the calls that returned,
\* whether close() was called), not file content.
SessionFile(id, file, cs, closed) ==
    [id |-> id, file |-> file, calls |-> cs, closed |-> closed]
Directory ==
    IF sid = NoSession THEN sessions
    ELSE Append(sessions, SessionFile(sid, lg.file, calls, lg.closed))
SessionIds == {Directory[i].id : i \in DOMAIN Directory}

RECURSIVE CallsMade(_)
CallsMade(dir) == IF dir = <<>> THEN 0 ELSE Len(Head(dir).calls) + CallsMade(Tail(dir))

LogInit == RunIdle /\ LibIdle

\* what a logger action leaves alone
logframe == <<pc, exc, ret, args, has, final_result, step_counter, timers,
              interrupted, pending, curLine, now, stderr_chunks, thr, child, gc,
              outBuf, nOut, errBuf, sigLog, nInt, joined, resume, fed, callvars>>

\* logging.py:26-30, 43-47: SessionLogger(): the id is the clock's second,
\* the one in which the previous logger was created or the next one, and a
\* random suffix; the file is created
NewSessionLogger ==
    /\ sid = NoSession /\ Len(sessions) < MaxSessions
    /\ \E ts \in {clock, clock + 1}, r \in Suffixes :
          /\ <<ts, r>> \notin SessionIds
          /\ sid' = <<ts, r>> /\ clock' = ts
    /\ lg' = NewLogger /\ calls' = <<>>
    /\ UNCHANGED <<logframe, sessions>>

\* one call c of the API on the open logger; on a closed file the write
\* raises ValueError and the call does not return (no call is made after
\* one has raised)
Api(c, after) ==
    /\ sid # NoSession /\ ~lg.failed /\ CallsMade(Directory) < MaxCalls
    /\ lg' = after
    /\ calls' = IF lg.closed THEN calls ELSE Append(calls, c)
    /\ UNCHANGED <<logframe, sessions, sid, clock>>

ApiLogStart == Api(ApiCall("log_start", "sonnet", 0, NoResult), LogStart(lg, "task", "sonnet"))
ApiLogToolCall == Api(ApiCall("log_tool_call", "t1", 0, NoResult), LogToolCall(lg, "t1"))
ApiLogToolResult == Api(ApiCall("log_tool_result", "t1", 0, NoResult), LogToolResult(lg, "t1", FALSE, -1))
ApiLogText == \E x \in Texts : Api(ApiCall("log_text", x, 0, NoResult), LogText(lg, x))
ApiLogDone == Api(ApiCall("log_done", "", lg.step, ResultOf(L_ok)), LogDone(lg, lg.step, ResultOf(L_ok)))

\* logging.py:103-105
ApiClose ==
    /\ sid # NoSession /\ ~lg.closed
    /\ lg' = LogClose(lg)
    /\ UNCHANGED <<logframe, sessions, sid, calls, clock>>

\* the process that holds the logger ends or is killed: what is still in
\* the file object's buffer is lost, what is in the file stays
ProcessGone ==
    /\ sid # NoSession
    /\ sessions' = Append(sessions, SessionFile(sid, lg.file, calls, lg.closed))
    /\ sid' = NoSession /\ lg' = NewLogger /\ calls' = <<>>
    /\ UNCHANGED <<logframe, clock>>

\* one session: a logger is created, called, closed or not, and its
\* process is gone
FirstSessionLogger == sessions = <<>> /\ NewSessionLogger

LogNext ==
    \/ FirstSessionLogger \/ ApiLogStart \/ ApiLogToolCall \/ ApiLogToolResult
    \/ ApiLogText \/ ApiLogDone \/ ApiClose \/ ProcessGone

LogSpec == LogInit /\ [][LogNext]_vars

\* the sessions directory: Runs come and go, each writing the records
\* list_sessions reads (start, done) and tool calls
DirInit == RunIdle /\ LibIdle

DirNext ==
    \/ NewSessionLogger \/ ApiLogStart \/ ApiLogToolCall \/ ApiLogDone \/ ProcessGone

DirSpec == DirInit /\ [][DirNext]_vars

(* ------------------------- build_resume_prompt ------------------------ *)
\* the number of transcript lines kept (logging.py:208)
ResumeCap == 30

\* one line of action_summaries: '  - [step] tool: cmd' (kind "call") or
\* '    -> OK' / '    -> ERROR' (kind "result"); logging.py:197-203
SummaryLine(evt) ==
    IF evt.event = "tool_call"
    THEN [kind |-> "call", step |-> evt.step, status |-> ""]
    ELSE [kind |-> "result", step |-> 0,
          status |-> IF evt.is_error THEN "ERROR" ELSE "OK"]

\* logging.py:190-203: the summaries of the tool_call and tool_result
\* events, in the order of the events
ActionSummaries(events) ==
    LET acts == SelectSeq(events, LAMBDA e : e.event \in {"tool_call", "tool_result"})
    IN  [i \in DOMAIN acts |-> SummaryLine(acts[i])]

\* action_summaries[-30:] (logging.py:208)
LastLines_FromFront(lines, n) ==
    IF Len(lines) <= n THEN lines ELSE SubSeq(lines, 1, n)

LastLines(lines, n) ==
    IF Len(lines) <= n THEN lines ELSE SubSeq(lines, Len(lines) - n + 1, Len(lines))

\* logging.py:191, 204-205
ResumeStatus_WhenStarted(events) ==
    IF \E i \in DOMAIN events : events[i].event = "start"
    THEN "completed" ELSE "interrupted"

ResumeStatus(events) ==
    IF \E i \in DOMAIN events : events[i].event = "done"
    THEN "completed" ELSE "interrupted"

\* logging.py:188-189, 194-196: prompt and model of the last start event
\* ("" and None when there is none)
ResumeStart(events) ==
    LET starts == SelectSeq(events, LAMBDA e : e.event = "start")
    IN  IF starts = <<>> THEN [task |-> "", model |-> "None"]
        ELSE [task |-> starts[Len(starts)].prompt, model |-> starts[Len(starts)].model]

\* logging.py:177-220: the parts of the returned prompt, and the model
BuildResumePrompt(file) ==
    LET events == ReplaySession(file).events
        start == ResumeStart(events)
    IN  [status |-> ResumeStatus(events), task |-> start.task,
         lines |-> LastLines(ActionSummaries(events), ResumeCap),
         model |-> start.model]

\* the log of the session that is resumed, written by a Run through its
\* SessionLogger
PriorLog == lg.file

\* the last tool_call of the prior log has no tool_result yet
IsToolEvent(line) == line.event \in {"tool_call", "tool_result"}
ToolLines == {i \in DOMAIN PriorLog : IsToolEvent(PriorLog[i])}
LastOf(S) == CHOOSE i \in S : \A j \in S : j <= i
CallPending == ToolLines # {} /\ PriorLog[LastOf(ToolLines)].event = "tool_call"
LogIsDone == \E i \in DOMAIN PriorLog : PriorLog[i].event = "done"

ResumeInit == RunIdle /\ LibIdle

\* what writing or reading the prior log leaves alone
resumeframe == <<pc, exc, ret, args, has, final_result, step_counter, timers,
                 interrupted, pending, curLine, now, stderr_chunks, thr, child, gc,
                 outBuf, nOut, errBuf, sigLog, nInt, joined,
                 sessions, sid, calls, clock, fed, callvars>>

\* the prior Run writes its log (agent.py:376, 253-255, 257-262, 295-296,
\* 507-508), until it is done or gone
PriorWrite(after) ==
    /\ resume = NoPrompt /\ ~LogIsDone
    /\ lg' = after
    /\ UNCHANGED <<resumeframe, resume>>

PriorStart == PriorLog = <<>> /\ \E m \in Models : PriorWrite(LogStart(lg, "task", m))
PriorToolCall == ~CallPending /\ lg.step < MaxPairs /\ PriorWrite(LogToolCall(lg, "t1"))
PriorText ==
    /\ CallPending /\ lg.step <= MaxVaried /\ PriorLog[Len(PriorLog)].event = "tool_call"
    /\ PriorWrite(LogText(lg, "hello"))
PriorToolResult ==
    /\ CallPending
    /\ \E err \in IF lg.step <= MaxVaried THEN BOOLEAN ELSE {FALSE} :
          PriorWrite(LogToolResult(lg, "t1", err, -1))
PriorDone == PriorWrite(LogDone(lg, lg.step, ResultOf(L_ok)))

\* logging.py:177-220
BuildResume ==
    /\ resume = NoPrompt
    /\ resume' = BuildResumePrompt(PriorLog)
    /\ UNCHANGED <<resumeframe, lg>>

ResumeNext ==
    \/ PriorStart \/ PriorToolCall \/ PriorText \/ PriorToolResult \/ PriorDone
    \/ BuildResume

ResumeSpec == ResumeInit /\ [][ResumeNext]_vars

(* ---------------------- the read loop on a stream --------------------- *)
\* agent.py:451-452: the read loop is entered, with or without a session
\* logger (its start record written); no process is looked at, only the
\* stream on stdout
StreamInit ==
    /\ has \in BOOLEAN
    /\ pc = "read" /\ exc = "none" /\ ret = NoResult
    /\ args = [log |-> has, dry_run |-> FALSE, timeout |-> "None",
               model |-> "None", verbose |-> FALSE]
    /\ lg = IF has THEN LogStart(NewLogger, "task", "None") ELSE NewLogger
    /\ final_result = NoResult /\ step_counter = 0 /\ timers = EmptyMap
    /\ interrupted = FALSE /\ pending = "none" /\ curLine = L_blank /\ now = 0
    /\ stderr_chunks = <<>> /\ thr = "none"
    /\ child = NoProc /\ gc = NoProc
    /\ outBuf = <<>> /\ nOut = 0 /\ errBuf = <<>>
    /\ sigLog = <<>> /\ nInt = 0 /\ joined = FALSE
    /\ LibIdle

\* a line is written to stdout (agent.py:456-459 reads it)
StreamWrite ==
    /\ pc \in {"read", "process"}
    /\ nOut < MaxStream /\ Len(outBuf) < PipeLines
    /\ \E l \in StreamLines :
          /\ outBuf' = Append(outBuf, l)
          /\ fed' = Append(fed, l)
    /\ nOut' = nOut + 1
    /\ UNCHANGED <<pc, exc, ret, args, has, lg, final_result, step_counter, timers,
                   interrupted, pending, curLine, now, stderr_chunks, thr, child, gc,
                   errBuf, sigLog, nInt, joined, sessions, sid, calls, clock, resume,
                   callvars>>

StreamNext == StreamWrite \/ ReadLine \/ Process

StreamSpec == StreamInit /\ [][StreamNext]_vars

(* ------------------- _kill_process_tree called directly --------------- *)
\* the child processes a termination may be handed: running, exited and
\* not yet waited for, or exited and reaped
KillTargets ==
    LET running == [state |-> "running", rc |-> 0, out |-> TRUE, err |-> TRUE]
    IN  {running} \cup {Exited(running, rc) : rc \in {0, 1}}
                  \cup {[Exited(running, rc) EXCEPT !.state = "reaped"] : rc \in {0, 1}}

\* the other process of its group: none, running, or gone
KillGroupMates ==
    {NoProc, [state |-> "running", rc |-> 0, out |-> FALSE, err |-> FALSE],
     Dead([state |-> "running", rc |-> 0, out |-> FALSE, err |-> FALSE])}

\* a child with its process group, and no termination made yet
KillInit ==
    /\ child \in KillTargets /\ gc \in KillGroupMates
    /\ pc = "kill_idle" /\ exc = "none" /\ ret = NoResult
    /\ args = [log |-> FALSE, dry_run |-> FALSE, timeout |-> "None",
               model |-> "None", verbose |-> FALSE]
    /\ has = FALSE /\ lg = NewLogger
    /\ final_result = NoResult /\ step_counter = 0 /\ timers = EmptyMap
    /\ interrupted = FALSE /\ pending = "none" /\ curLine = L_blank /\ now = 0
    /\ stderr_chunks = <<>> /\ thr = "none"
    /\ outBuf = <<>> /\ nOut = 0 /\ errBuf = <<>>
    /\ sigLog = <<>> /\ nInt = 0 /\ joined = FALSE
    /\ LibIdle

\* the processes as a termination finds or leaves them
GroupState == [child |-> child, gc |-> gc]

killframe == <<exc, ret, args, has, lg, final_result, step_counter, timers,
               interrupted, pending, curLine, now, stderr_chunks, thr, outBuf,
               nOut, errBuf, nInt, joined, sessions, sid, calls, clock, resume, fed,
               dec, fmt, want, errRead>>

\* agent.py:301-308, 322: _kill_process_tree(proc) is called; sys.platform
\* decides the branch
KillCall ==
    /\ pc = "kill_idle" /\ Len(kills) < MaxKills
    /\ \E pf \in {"posix", "win32"} :
          pc' = IF pf = "win32" THEN "kpt_winkill" ELSE "kpt_term"
    /\ kills' = Append(kills, [pre |-> GroupState, post |-> GroupState, done |-> FALSE])
    /\ UNCHANGED <<killframe, child, gc, sigLog>>

\* _kill_process_tree returns (agent.py:316, 321, 324)
KillReturn ==
    /\ pc = "after" /\ kills # <<>>
    /\ kills' = [kills EXCEPT ![Len(kills)] = [@ EXCEPT !.post = GroupState, !.done = TRUE]]
    /\ pc' = "kill_idle"
    /\ UNCHANGED <<killframe, child, gc, sigLog>>

\* the processes go on by themselves until the first termination has
\* returned
KillEnv ==
    /\ IF kills = <<>> THEN TRUE ELSE ~kills[1].done
    /\ ChildExit \/ GcExit

KillNext ==
    \/ KillCall \/ KptTerm \/ KptWait3 \/ KptKill \/ KptWait2 \/ KptWinKill \/ KptWinWait
    \/ KillReturn \/ KillEnv

KillSpec == KillInit /\ [][KillNext]_vars

(* ------------------ _process_stream_line called directly ------------- *)
\* the usage fields a result event may carry
UsageFields == {"cost_usd", "input_tokens", "output_tokens", "num_turns", "session_id"}

\* the keyword-only parameters of _process_stream_line (agent.py:190-193)
DecodeKeywords == {"verbose", "tool_start_times", "step_counter", "session_logger"}

\* _process_stream_line(line, **kws) (agent.py:187-194): a keyword the
\* signature does not name raises TypeError before the body runs
DecodeCallOutcome(l, kws, d, t) ==
    IF kws \subseteq DecodeKeywords
    THEN [exc |-> "none", r |-> ProcessStreamLine(l, d, t)]
    ELSE [exc |-> "TypeError", r |-> [st |-> d, ret |-> NoResult]]

DecodeInit == RunIdle /\ LibIdle

\* A caller decodes one result event, as the callers of
\* src/tests/test_agent.py:179-258 do: with fresh tool_start_times and
\* step_counter, and with the usage keyword left out, None, or an empty
\* dict.  fields are the usage fields the event carries; snapshot is the
\* set of keys of the dict after the call (the body of agent.py:203-220
\* reads none of the fields and has no snapshot to write to).
DecodeCall ==
    /\ \E l \in {L_ok, L_err}, fs \in SUBSET UsageFields,
          u \in {"omitted", "None", "dict"} :
          LET kws == {"tool_start_times", "step_counter"}
                        \cup (IF u = "omitted" THEN {} ELSE {"usage"})
              out == DecodeCallOutcome(l, kws, DecState(0, EmptyMap, NewLogger, FALSE), 0)
          IN  dec' = [made |-> TRUE, line |-> l, fields |-> fs, usage |-> u,
                      exc |-> out.exc, ret |-> out.r.ret, snapshot |-> {}]
    /\ UNCHANGED <<runvars, sessions, sid, calls, clock, resume, fed,
                   kills, fmt, want, errRead>>

DecodeNext == DecodeCall

DecodeSpec == DecodeInit /\ [][DecodeNext]_vars

(* ------------------- the two pipes and their readers ------------------ *)
\* A Run from Popen on, with a child that sets out to write want.out lines
\* to stdout and want.err chunks to stderr, in any order, and then exits.
\* Both pipes have a capacity; the coordinator empties stdout line by line
\* (agent.py:456-459), the drain thread empties stderr (agent.py:444-446).
PipeInit ==
    /\ has \in BOOLEAN
    /\ want \in [out : 0..MaxLines, err : 0..MaxPlanErr]
    /\ pc = "popen" /\ exc = "none" /\ ret = NoResult
    /\ args = [log |-> has, dry_run |-> FALSE, timeout |-> "None",
               model |-> "None", verbose |-> FALSE]
    /\ lg = IF has THEN LogStart(NewLogger, "task", "None") ELSE NewLogger
    /\ final_result = NoResult /\ step_counter = 0 /\ timers = EmptyMap
    /\ interrupted = FALSE /\ pending = "none" /\ curLine = L_blank /\ now = 0
    /\ stderr_chunks = <<>> /\ thr = "none"
    /\ child = NoProc /\ gc = NoProc
    /\ outBuf = <<>> /\ nOut = 0 /\ errBuf = <<>>
    /\ sigLog = <<>> /\ nInt = 0 /\ joined = FALSE
    /\ sessions = <<>> /\ sid = NoSession /\ calls = <<>> /\ clock = 0
    /\ resume = NoPrompt /\ fed = <<>>
    /\ kills = <<>> /\ dec = NoCall /\ fmt = NoCall /\ errRead = 0

OutPipeFull == Len(outBuf) >= PipeLines
ErrPipeFull == Len(errBuf) - errRead >= ErrPipeChunks

pipeframe == <<sessions, sid, calls, clock, resume, fed, kills, dec, fmt>>

\* the child writes a line to stdout; the write waits while the pipe is full
PipeChildWrite ==
    /\ ChildRuns /\ want.out > 0 /\ ~OutPipeFull
    /\ \E l \in LineSet : outBuf' = Append(outBuf, l)
    /\ nOut' = nOut + 1
    /\ want' = [want EXCEPT !.out = @ - 1]
    /\ UNCHANGED <<pc, exc, ret, args, has, lg, final_result, step_counter, timers,
                   interrupted, pending, curLine, now, stderr_chunks, sigLog, joined,
                   thr, child, gc, errBuf, nInt, pipeframe, errRead>>

\* the child writes a chunk to stderr; the write waits while the pipe is full
PipeChildWriteErr ==
    /\ ChildRuns /\ want.err > 0 /\ ~ErrPipeFull
    /\ errBuf' = Append(errBuf, "e")
    /\ want' = [want EXCEPT !.err = @ - 1]
    /\ UNCHANGED <<pc, exc, ret, args, has, lg, final_result, step_counter, timers,
                   interrupted, pending, curLine, now, stderr_chunks, sigLog, joined,
                   thr, child, gc, outBuf, nOut, nInt, pipeframe, errRead>>

\* the child has written everything and exits
PipeChildExit ==
    /\ want = NoPlan
    /\ ChildExit

\* PipeDrainRead of a thread that reads stderr only once the child has exited
PipeDrainRead_AfterExit ==
    /\ RunActive /\ thr = "reading" /\ errRead < Len(errBuf)
    /\ child.state # "running"
    /\ errRead' = Len(errBuf)
    /\ UNCHANGED <<runvars, pipeframe, want>>

\* agent.py:444-446: proc.stderr.read() in the drain thread takes what is
\* in the pipe and goes on reading until EOF
PipeDrainRead ==
    /\ RunActive /\ thr = "reading" /\ errRead < Len(errBuf)
    /\ errRead' = Len(errBuf)
    /\ UNCHANGED <<runvars, pipeframe, want>>

PipeNext ==
    \/ PopenOk \/ ThreadStart \/ ReadLine \/ Process
    \/ Finally \/ KptTerm \/ KptWait3 \/ KptKill \/ KptWait2 \/ KptWinKill \/ KptWinWait
    \/ After \/ Wait \/ Join \/ Result \/ RunLogDone \/ RunClose
    \/ PipeDrainRead \/ DrainStderr
    \/ PipeChildWrite \/ PipeChildWriteErr \/ PipeChildExit

\* the coordinator, the drain thread and the child are each scheduled: a
\* step that stays possible is eventually taken
PipeFair ==
    /\ WF_vars(PopenOk) /\ WF_vars(ThreadStart) /\ WF_vars(ReadLine) /\ WF_vars(Process)
    /\ WF_vars(Finally) /\ WF_vars(KptTerm) /\ WF_vars(KptWait3) /\ WF_vars(KptKill)
    /\ WF_vars(KptWait2) /\ WF_vars(KptWinKill) /\ WF_vars(KptWinWait)
    /\ WF_vars(After) /\ WF_vars(Wait) /\ WF_vars(Join) /\ WF_vars(Result)
    /\ WF_vars(RunLogDone) /\ WF_vars(RunClose)
    /\ WF_vars(PipeDrainRead) /\ WF_vars(DrainStderr)
    /\ WF_vars(PipeChildWrite) /\ WF_vars(PipeChildWriteErr) /\ WF_vars(PipeChildExit)

PipeSpec == PipeInit /\ [][PipeNext]_vars /\ PipeFair

(* ---------------------------- _format_command ------------------------ *)
\* the budget of a summary (agent.py:177) and the length of '...' (agent.py:153)
SummaryBudget == 120
EllipsisLen == 3
\* the length of the separator ' ; ' (agent.py:175)
JoinLen == 3

\* One line of a command, stripped: its length and what it starts with:
\*   "python"  'python3 -c' or 'python -c' or any 'python...'
\*   "exe"     sys.executable (an absolute path)
\*   "import"  'from ' or 'import '
\*   "quote"   a double or single quote
\*   "blank"   nothing (the line is empty after strip)
\*   "call"    anything else
CmdLine(k, n) == [kind |-> k, len |-> n]
CmdLines ==
    {CmdLine("blank", 0)}
      \cup {CmdLine(k, n) : k \in {"python", "exe", "import", "quote", "call"},
                            n \in {10, 120, 121}}

\* the commands, stripped (agent.py:163): no blank first or last line
Commands ==
    {c \in UNION {[1..n -> CmdLines] : n \in 1..MaxCmdLines} :
        c[1].kind # "blank" /\ c[Len(c)].kind # "blank"}

RECURSIVE SumLens(_)
SumLens(ls) == IF ls = <<>> THEN 0 ELSE Head(ls).len + SumLens(Tail(ls))

\* len(command): the lines and the newlines between them
CommandLen(c) == SumLens(c) + (Len(c) - 1)

\* agent.py:148-153 on a stripped text of length n: the length of what is
\* returned and whether '...' was appended
Truncate(n, max_len) ==
    IF n <= max_len THEN [len |-> n, marker |-> FALSE]
    ELSE [len |-> max_len + EllipsisLen, marker |-> TRUE]

\* agent.py:166: command.startswith(("python3 -c", "python -c", sys.executable))
IsPythonCommand(c) == c[1].kind \in {"python", "exe"}

\* agent.py:168-173: the lines that are neither empty nor start with
\* 'from ', 'import ', 'python' or a quote
CallsOf(c) == SelectSeq(c, LAMBDA ln : ln.kind \notin {"blank", "import", "python", "quote"})

\* agent.py:156-177: the lines the summary is made of, its length and
\* whether it ends with the marker
FormatCommand(c) ==
    IF IsPythonCommand(c) /\ CallsOf(c) # <<>>
    THEN [kept |-> CallsOf(c),
          len |-> SumLens(CallsOf(c)) + JoinLen * (Len(CallsOf(c)) - 1),
          marker |-> FALSE]
    ELSE [kept |-> c] @@ Truncate(CommandLen(c), SummaryBudget)

FormatInit == RunIdle /\ LibIdle

\* _format_command(command) is called (agent.py:240)
FormatCall ==
    /\ fmt = NoCall
    /\ \E c \in Commands : fmt' = [made |-> TRUE, cmd |-> c, out |-> FormatCommand(c)]
    /\ UNCHANGED <<runvars, sessions, sid, calls, clock, resume, fed,
                   kills, dec, want, errRead>>

FormatNext == FormatCall

FormatSpec == FormatInit /\ [][FormatNext]_vars

(* ------------------------------ properties ---------------------------- *)
Launched == child.state # "none"
DoneRecords == {i \in DOMAIN lg.file : lg.file[i].event = "done"}
LastRecord == lg.file[Len(lg.file)]

\* C1: after the child has been launched, whenever run_agent returns or
\* propagates an exception, the child process is no longer running.
C1_ChildGoneWhenRunEnds ==
    (Ended /\ Launched) => child.state # "running"

\* C2: when a Run ends (here: run_agent returns, no user interrupt
\* involved), no process of the child's process group is left running:
\* neither the child nor the grandchild it spawned.
C2_GroupGoneWhenRunEnds ==
    (pc = "returned" /\ Launched /\ nInt = 0) =>
        (child.state # "running" /\ gc.state # "running")

\* the orders in which _kill_process_tree may act on a POSIX platform
KillOrders ==
    { <<"SIGTERM", "grace_expired", "SIGKILL", "reap_wait">>,
      <<"SIGTERM", "grace_expired", "reap_wait">>,
      <<"SIGTERM", "exited_in_grace">>,
      <<"exited_in_grace">> }
IsPrefix(a, b) == Len(a) <= Len(b) /\ a = SubSeq(b, 1, Len(a))
Signals == {"SIGTERM", "SIGKILL"}
SentSignals == {i \in DOMAIN sigLog : sigLog[i] \in Signals}

\* C3: escalated termination is ordered.  The first signal sent is SIGTERM;
\* SIGKILL is sent only directly after the grace wait expired with the
\* child still running, hence never once the child exited within the grace
\* period; and what follows SIGKILL is the bounded wait for reap, which has
\* happened whenever the termination ran to its end.
C3_EscalationOrdered ==
    /\ \A i \in SentSignals :
          \/ sigLog[i] = "SIGTERM" /\ i = 1
          \/ /\ sigLog[i] = "SIGKILL" /\ i = 3
             /\ sigLog[1] = "SIGTERM" /\ sigLog[2] = "grace_expired"
    /\ SentSignals # {} => \E o \in KillOrders : IsPrefix(sigLog, o)
    /\ (Len(sigLog) > 0 /\ sigLog[Len(sigLog)] = "SIGKILL") =>
          (pc = "kpt_wait2" \/ (pc = "raised" /\ exc = "KeyboardInterrupt"))

\* C3 witness: the grace wait expired, SIGKILL was sent to the group and
\* the reap wait has returned.
C3_Witness ==
    sigLog = <<"SIGTERM", "grace_expired", "SIGKILL", "reap_wait">> /\ pc = "after"

\* C4: when run_agent is given a timeout and the Run ends without a result
\* having been decoded, run_agent returns a string starting with
\* '[timeout]'.
C4_TimeoutReported ==
    (Ended /\ args.timeout # "None" /\ final_result = NoResult) =>
        (pc = "returned" /\ ret.prefix = "[timeout] ")

\* C5: if a user interrupt arrived after the session log was started, then
\* when control is back with the caller the log's last record is a done
\* record marked interrupted and the log file is closed.
C5_InterruptFinalizesLog ==
    (Ended /\ has /\ nInt > 0) =>
        /\ LastRecord.event = "done"
        /\ LastRecord.result_preview = InterruptedPreview
        /\ lg.closed

\* C6: every Run that opened a session log has written exactly one done
\* record when control leaves run_agent.
C6_ExactlyOneDone ==
    (Ended /\ has) => Cardinality(DoneRecords) = 1

\* C7: once a terminal result event has been decoded, the stdout reader
\* stops reading: the coordinator is no longer in the read loop.
C7_StopsAfterResult ==
    final_result # NoResult => pc \notin {"read", "process"}

\* C8: decoding a stdout line never raises, whatever the line is, so the
\* Run is never aborted by a line.
C8_DecodeNeverRaises ==
    pending # "AttributeError" /\ exc # "AttributeError"

\* the Run of C9: nothing was written to stdout, the child exited with a
\* nonzero code, no interrupt arrived, and run_agent returned
EmptyFailedRun ==
    /\ pc = "returned" /\ Launched /\ nInt = 0
    /\ nOut = 0 /\ child.rc # 0

\* C9 as stated: the returned error carries the exit code and the complete
\* text the child wrote to stderr.
C9_CompleteStderr ==
    EmptyFailedRun => ret = CliExit(child.rc, errBuf)

\* C9 amended: the returned error carries the exit code; its stderr text
\* is the complete text when the drain thread had finished by the time
\* join(timeout=5) returned, and is either complete or empty otherwise.
C9_CapturedStderr ==
    EmptyFailedRun =>
        /\ ret.prefix = "[error] " /\ ret.kind = "cli_exit" /\ ret.code = child.rc
        /\ ret.err \in {errBuf, <<>>}
        /\ joined => ret.err = errBuf

\* C9 witness: the child wrote to stderr and exited nonzero, the drain
\* thread finished in time and the text is in the returned error.
C9_Witness ==
    EmptyFailedRun /\ joined /\ errBuf # <<>> /\ ret.err = errBuf

\* the Run of C10: it ended without a child, and was neither a dry run,
\* nor given a timeout, nor interrupted, nor stopped by the session log:
\* Popen raised
LaunchFailed ==
    /\ Ended /\ ~Launched /\ nInt = 0
    /\ ~args.dry_run /\ args.timeout = "None" /\ exc # "OSError"

\* C10: if the child cannot be launched run_agent does not raise; it
\* returns the launch-failure string, no reader was started and no signal
\* sent, and a started log ends with a done record of 0 steps carrying
\* that error and is closed.
C10_LaunchFailureReported ==
    LaunchFailed =>
        /\ pc = "returned" /\ ret = LaunchError
        /\ thr = "none" /\ sigLog = <<>>
        /\ has => /\ LastRecord = [event |-> "done", steps |-> 0,
                                    result_preview |-> LaunchError]
                  /\ lg.closed

\* the prefixes under which the other three outcomes are returned: a
\* result ("" or "[error] "), an empty failed Run, a timeout
OtherOutcomePrefixes == {"", "[error] ", "[timeout] "}

\* C11: a cancelled Run is told apart from the other terminal outcomes by
\* the fixed prefix of the returned string and is not returned under the
\* failure tag '[error] '; in the done record it is told apart as well.
C11_CancellationDistinct ==
    (pc = "returned" /\ interrupted) =>
        /\ ret.prefix \notin OtherOutcomePrefixes
        /\ has => LastRecord.result_preview = InterruptedPreview

Range(f) == {f[i] : i \in DOMAIN f}

\* C12: a dry run never spawns a process, starts a reader or creates a
\* session log, whatever the log flag; what it returns is '[dry-run] '
\* followed by the command line, which holds the task and holds the
\* --model flag, followed by the model, exactly when a model was given.
C12_DryRunOnlyReportsCommand ==
    /\ args.dry_run => (~Launched /\ thr = "none" /\ ~has /\ lg = NewLogger)
    /\ (pc = "returned" /\ args.dry_run) =>
          /\ ret.prefix = "[dry-run] "
          /\ "task" \in Range(ret.err)
          /\ ("--model" \in Range(ret.err)) <=> (args.model # "None")
          /\ args.model # "None" =>
                \E i \in 1..(Len(ret.err) - 1) :
                    ret.err[i] = "--model" /\ ret.err[i + 1] = args.model

\* C12 witness: a dry run with logging asked for and a model given has
\* returned.
C12_Witness ==
    pc = "returned" /\ args.dry_run /\ args.log /\ args.model = "sonnet"

\* C20: a failure to open or write the session log never aborts the Run:
\* run_agent does not propagate the OSError.
C20_LogFailureTolerated ==
    exc # "OSError"

\* the lines the records of a sequence of calls are written as
CallLines(cs) == LET recs == CallRecords(cs, 0) IN [i \in DOMAIN recs |-> Dumps(recs[i])]

\* C13: at every point the file of every session, of the open logger as
\* of the sessions whose process is gone (closed or not), holds the line
\* of every call that returned, in call order.
C13_ReturnedCallsOnDisk ==
    \A i \in DOMAIN Directory : Directory[i].file = CallLines(Directory[i].calls)

\* C13 witness: a process made two calls and was gone without close();
\* both records are in its file.
C13_Witness ==
    \E i \in DOMAIN sessions :
        /\ ~sessions[i].closed /\ Len(sessions[i].calls) >= 2
        /\ Len(sessions[i].file) = Len(sessions[i].calls)

\* C14: replay_session of every session returns exactly the records of
\* the calls that returned, one per call and in call order.
C14_ReplayReturnsCalls ==
    \A i \in DOMAIN Directory :
        LET got == ReplaySession(Directory[i].file)
        IN  got.ok /\ got.events = CallRecords(Directory[i].calls, 0)

\* C14 witness: three calls were made, among them texts with a newline
\* and with a backslash, and replay returns the three records.
C14_Witness ==
    /\ sid # NoSession /\ Len(calls) = 3
    /\ \E i, j \in DOMAIN calls : calls[i].s = TextNL /\ calls[j].s = TextBS
    /\ ReplaySession(lg.file).events = CallRecords(calls, 0)

DoneLines(file) == {i \in DOMAIN file : file[i].event = "done"}
StartLines(file) == {i \in DOMAIN file : file[i].event = "start"}
Last(S) == CHOOSE i \in S : \A j \in S : j <= i

\* C15: list_sessions has one entry per file; an entry's status is 'done'
\* when the file holds a done record and 'incomplete' otherwise, its steps
\* are the done record's, its prompt the start record's; and the entries
\* are in the reverse of the order in which the sessions were started.
C15_ListNewestFirst ==
    LET ls == ListSessions(Directory)
        n == Len(Directory)
    IN  /\ Len(ls) = n
        /\ \A i \in 1..n :
              LET f == Directory[n + 1 - i]
              IN  /\ ls[i].id = f.id
                  /\ ls[i].status = IF DoneLines(f.file) # {} THEN "done" ELSE "incomplete"
                  /\ DoneLines(f.file) # {} =>
                        ls[i].steps = Loads(f.file[Last(DoneLines(f.file))]).steps
                  /\ StartLines(f.file) # {} =>
                        ls[i].prompt = Loads(f.file[Last(StartLines(f.file))]).prompt

\* the k-th tool_call or tool_result record of the prior log, counted
\* from its end (k = 1: the last one)
ToolEventCount == Cardinality(ToolLines)
ToolEventFromEnd(k) ==
    LET i == CHOOSE j \in ToolLines :
                Cardinality({m \in ToolLines : m >= j}) = k
    IN  Loads(PriorLog[i])

\* C16: the prompt holds at most 30 transcript lines; they are the lines
\* of the most recent tool_call/tool_result records, in log order; the
\* prompt holds the task of the start record, and the returned model is
\* the start record's.
C16_ResumeKeepsLast30 ==
    resume # NoPrompt =>
        LET n == ToolEventCount
            k == Len(resume.lines)
        IN  /\ k <= 30
            /\ k = IF n <= 30 THEN n ELSE 30
            /\ \A i \in 1..k : resume.lines[i] = SummaryLine(ToolEventFromEnd(k + 1 - i))
            /\ StartLines(PriorLog) # {} =>
                  /\ resume.task = "task"
                  /\ resume.model = Loads(PriorLog[Last(StartLines(PriorLog))]).model

\* C16 witness: a prompt was built from a log with more than 30 tool
\* records and a model; it holds 30 lines, the last of them a result.
C16_Witness ==
    /\ resume # NoPrompt /\ ToolEventCount > 30
    /\ Len(resume.lines) = 30 /\ resume.lines[30].kind = "result"
    /\ resume.model = "sonnet"

\* C17: the status reported is 'completed' exactly when the prior log
\* holds a done record, and 'interrupted' otherwise.
C17_StatusCompletedIffDone ==
    resume # NoPrompt =>
        resume.status = IF DoneLines(PriorLog) # {} THEN "completed" ELSE "interrupted"

\* C17 witness: a prompt was built from a log that has tool records and
\* a start record but no done record; the status is 'interrupted'.
C17_Witness ==
    /\ resume.status = "interrupted" /\ StartLines(PriorLog) # {}
    /\ ToolEventCount > 0

\* the lines of the stream that have been decoded
Decoded ==
    SubSeq(fed, 1, Len(fed) - Len(outBuf) - (IF pc = "process" THEN 1 ELSE 0))

\* C18: when a result event that carries a message has just been decoded,
\* the final text is '[error] ' followed by the message if the event
\* carries an error flag, and the message itself if it does not.
C18_ResultTextVerbatim ==
    (pc \in {"read", "finally"} /\ pending = "none" /\ Decoded # <<>>) =>
        LET l == Decoded[Len(Decoded)]
        IN  (l.json = "object" /\ l.type = "result" /\ l.text # "absent") =>
              /\ final_result.prefix = IF l.isErr THEN "[error] " ELSE ""
              /\ final_result.text = l.text

\* C18 witness: after another line, a result event with the error flag
\* and the message r2 has been decoded; the final text is '[error] ' r2.
C18_Witness ==
    /\ pc = "read" /\ Len(Decoded) >= 2 /\ Decoded[Len(Decoded)] = L_err
    /\ final_result.prefix = "[error] " /\ final_result.text = "r2"

\* a line whose decoding raises before any of its blocks is looked at
RaisesAtOnce(l) ==
    l.json = "nonobject" \/ (l.json = "object" /\ l.type # "result" /\ ~l.msgOk)

\* the blocks of a line that are looked at: all of them, or those up to
\* the first block that is not an object
RECURSIVE BlocksSeen(_)
BlocksSeen(bs) ==
    IF bs = <<>> \/ ~Head(bs).ok THEN <<>> ELSE <<Head(bs)>> \o BlocksSeen(Tail(bs))

\* the session-log events due for one line: one per tool_use and per
\* non-empty text block of an assistant message, one per tool_result
\* block of a user message, in block order
LineEvents(l) ==
    IF l.json # "object" \/ l.type \notin {"assistant", "user"} \/ ~l.msgOk THEN <<>>
    ELSE LET seen == BlocksSeen(l.blocks)
             due == SelectSeq(seen, LAMBDA b :
                       IF l.type = "assistant"
                       THEN b.type = "tool_use" \/ (b.type = "text" /\ b.text # "")
                       ELSE b.type = "tool_result")
         IN  [i \in DOMAIN due |->
                 IF due[i].type = "tool_use" THEN <<"tool_call", due[i].id>>
                 ELSE IF due[i].type = "text" THEN <<"text", due[i].text>>
                 ELSE <<"tool_result", due[i].id>>]

\* the events due for a stream: those of its lines in line order, up to
\* and including the line whose decoding raises
RECURSIVE StreamEvents(_)
StreamEvents(ls) ==
    IF ls = <<>> THEN <<>>
    ELSE IF RaisesAtOnce(Head(ls)) THEN <<>>
    ELSE IF Len(BlocksSeen(Head(ls).blocks)) < Len(Head(ls).blocks)
            /\ Head(ls).type \in {"assistant", "user"}
    THEN LineEvents(Head(ls))
    ELSE LineEvents(Head(ls)) \o StreamEvents(Tail(ls))

\* the tool_call, tool_result and text records of the session log
LoggedEvents ==
    LET recs == SelectSeq(ReplaySession(lg.file).events,
                          LAMBDA e : e.event \in {"tool_call", "tool_result", "text"})
    IN  [i \in DOMAIN recs |->
            IF recs[i].event = "text" THEN <<"text", recs[i].text>>
            ELSE <<recs[i].event, recs[i].tool_id>>]

\* C19: the tool_call, tool_result and text records of the session log
\* are exactly the events of the decoded lines, in line order and in block
\* order within a line: one record per tool_use, tool_result and non-empty
\* text block that was looked at, none merged, duplicated or reordered.
C19_LogInStreamOrder ==
    has => LoggedEvents = StreamEvents(Decoded)

\* C19 witness: the two messages with several blocks have been decoded and
\* the log holds their five records.
C19_Witness ==
    /\ has /\ pc = "read" /\ Decoded = <<L_multi, L_results>>
    /\ Len(LoggedEvents) = 5

\* the whole process group of a termination's child has exited
GroupExited(g) == g.child.state # "running" /\ g.gc.state # "running"

\* what wait() makes of an exited child: its zombie is reaped
Reaped(g) == [g EXCEPT !.child.state = IF @ = "zombie" THEN "reaped" ELSE @]

\* C21: _kill_process_tree never raises; called on a child whose process
\* group has exited it returns having changed no process (the child is
\* reaped, nothing else); a termination made right after another leaves
\* the processes as the first one left them.
C21_KillIdempotent ==
    /\ exc = "none" /\ pc # "raised"
    /\ \A i \in DOMAIN kills :
          kills[i].done =>
             /\ GroupExited(kills[i].pre) => kills[i].post = Reaped(kills[i].pre)
             /\ i > 1 => kills[i].post = kills[i - 1].post

\* C21 witness: a running child was terminated with signals, then the
\* termination was made again on the reaped child and returned.
C21_Witness ==
    /\ Len(kills) = 2 /\ kills[2].done
    /\ kills[1].pre.child.state = "running" /\ kills[2].pre.child.state = "reaped"
    /\ "SIGKILL" \in Range(sigLog)

\* C22: decoding a result event returns its final text whether or not a
\* usage snapshot is supplied, and a supplied snapshot holds afterwards
\* exactly the usage fields the event carries, for success and error
\* results alike.
C22_UsageExtracted ==
    dec.made =>
        /\ dec.exc = "none"
        /\ dec.ret.text = dec.line.text
        /\ dec.ret.prefix = IF dec.line.isErr THEN "[error] " ELSE ""
        /\ dec.usage = "dict" => dec.snapshot = dec.fields

\* the child waits in a write to a full pipe
BlockedOnStdout == ChildRuns /\ want.out > 0 /\ OutPipeFull
BlockedOnStderr == ChildRuns /\ want.err > 0 /\ ErrPipeFull

\* C23: a child that waits on a full stdout or stderr pipe eventually
\* finds room in it or has been terminated, and a Run whose child was
\* launched eventually ends.
C23_NoPipeDeadlock ==
    /\ BlockedOnStdout ~> (~OutPipeFull \/ child.state # "running")
    /\ BlockedOnStderr ~> (~ErrPipeFull \/ child.state # "running")
    /\ Launched ~> Ended

\* C23 witness: the child wrote more to each pipe than the pipe holds, and
\* run_agent has returned with the drain thread finished.
C23_Witness ==
    /\ pc = "returned" /\ thr = "done"
    /\ Len(errBuf) > ErrPipeChunks /\ nOut > PipeLines

\* the tool ids of a sequence of events for which a tool call is followed
\* by no tool result
Outstanding(evs) ==
    {evs[i][2] : i \in {j \in DOMAIN evs :
        /\ evs[j][1] = "tool_call"
        /\ \A k \in (j + 1)..Len(evs) : evs[k] # <<"tool_result", evs[j][2]>>}}

\* the tool_call and tool_result records of the session log
ToolRecords ==
    SelectSeq(ReplaySession(lg.file).events,
              LAMBDA e : e.event \in {"tool_call", "tool_result"})

\* C24: between two decode calls the pending-timer map holds exactly the
\* ids of the tool calls decoded with no later tool result for the id; the
\* elapsed time of a tool result is non-negative when a timer was pending
\* for its id and absent when none was (unknown or already consumed id).
C24_TimersMatchOutstanding ==
    /\ pc # "process" => DOMAIN timers = Outstanding(StreamEvents(Decoded))
    /\ has =>
          \A i \in DOMAIN ToolRecords :
              ToolRecords[i].event = "tool_result" =>
                 LET before == [j \in 1..(i - 1) |->
                                   <<ToolRecords[j].event, ToolRecords[j].tool_id>>]
                 IN  IF ToolRecords[i].tool_id \in Outstanding(before)
                     THEN ToolRecords[i].elapsed_s >= 0
                     ELSE ToolRecords[i].elapsed_s = -1

\* C24 witness: two tool calls and their two results were decoded, then a
\* second result for a consumed id: no timer is pending, the last result
\* has no elapsed time and the one before has.
C24_Witness ==
    /\ has /\ pc = "read" /\ Decoded = <<L_multi, L_results, L_toolres>>
    /\ timers = EmptyMap
    /\ ToolRecords[Len(ToolRecords)].elapsed_s = -1
    /\ ToolRecords[Len(ToolRecords) - 1].elapsed_s >= 0

\* the length of the text that is left of a command once its import,
\* launcher, quote and empty lines are stripped (when that leaves anything)
RemainingLen(c) ==
    LET rest == SelectSeq(c, LAMBDA ln : ln.kind \in {"call", "exe"})
    IN  IF c[1].kind \in {"python", "exe"} /\ rest # <<>>
        THEN SumLens(rest) + 3 * (Len(rest) - 1)
        ELSE CommandLen(c)

\* C25: the summary of a python command that has call lines holds no
\* import, launcher or quote line; a summary is never longer than 120
\* characters plus the '...' marker; and it ends with the marker exactly
\* when text was cut.
C25_SummaryWithinBudget ==
    fmt.made =>
        /\ (fmt.cmd[1].kind \in {"python", "exe"}
              /\ \E i \in DOMAIN fmt.cmd : fmt.cmd[i].kind \in {"call", "exe"})
             => \A i \in DOMAIN fmt.out.kept :
                    fmt.out.kept[i].kind \notin {"import", "python", "quote", "blank"}
        /\ fmt.out.len <= 120 + 3
        /\ fmt.out.marker <=>
              (fmt.out.len - (IF fmt.out.marker THEN 3 ELSE 0) < RemainingLen(fmt.cmd))

\* a record of the session log holds text that was written to stderr
HoldsStderr(rec) ==
    \/ rec.event = "done" /\ rec.result_preview.err # <<>>
    \/ rec.event = "text" /\ rec.text \in Range(errBuf)
    \/ rec.event \in {"tool_call", "tool_result"} /\ rec.tool_id \in Range(errBuf)

\* C26: no record of a Run's session log holds text read from the child's
\* stderr.
C26_NoStderrInLog ==
    \A i \in DOMAIN lg.file : ~HoldsStderr(lg.file[i])

\* C26, amended: no start, tool_call, tool_result or text record holds
\* text read from stderr; the only record that does is the done record of
\* a Run that ended with no result and a nonzero exit code, whose
\* result_preview quotes the captured stderr.
C26_StderrOnlyInFailureOutcome ==
    \A i \in DOMAIN lg.file :
        HoldsStderr(lg.file[i]) =>
            /\ lg.file[i].event = "done" /\ i = Len(lg.file)
            /\ lg.file[i].result_preview.kind = "cli_exit"
            /\ final_result = NoResult /\ child.rc # 0

\* C26 witness: the child wrote to stderr and a tool call to stdout, and
\* failed with no result; the done record quotes the stderr text, the
\* tool_call record does not.
C26_Witness ==
    /\ has /\ pc = "returned" /\ stderr_chunks = << <<"e">> >>
    /\ \E i \in DOMAIN lg.file : lg.file[i].event = "tool_call"
    /\ LastRecord.event = "done" /\ LastRecord.result_preview.err = <<"e">>


\* the tool_call records of the Run's log, in log order
ToolCallRecords == SelectSeq(lg.file, LAMBDA rec : rec.event = "tool_call")

\* C27: in the session log written by run_agent (a log that holds any
\* record) the start record is the first record and the only start
\* record, there is at most one done
\* record, the done record is the last record, and no write was attempted
\* on the closed log.
C27_LogWellFormed ==
    has =>
        /\ \A i \in DOMAIN lg.file : lg.file[i].event = "start" <=> i = 1
        /\ Cardinality(DoneRecords) <= 1
        /\ \A i \in DoneRecords : i = Len(lg.file)
        /\ ~lg.failed

\* C27 witness: a Run that was interrupted after its child had exited has
\* returned; its log holds tool records, ends with the done record and is
\* closed.
C27_Witness ==
    /\ pc = "returned" /\ has /\ interrupted /\ lg.closed
    /\ child.state = "reaped" /\ sigLog = <<>>
    /\ Len(ToolCallRecords) > 0
    /\ DoneRecords = {Len(lg.file)}

\* C28: in a logged Run the tool_call records are numbered 1..n in log
\* order and the steps field of the done record equals n, the number of
\* tool_call records in the log.
C28_StepsCountToolCalls ==
    has =>
        /\ \A i \in DOMAIN ToolCallRecords : ToolCallRecords[i].step = i
        /\ \A i \in DoneRecords : lg.file[i].steps = Len(ToolCallRecords)

\* C30: a logged Run cancelled by a user interrupt, once run_agent has
\* returned, leaves a log whose last record is a done record with preview
\* '[interrupted]'; list_sessions reports the session as 'done' and
\* build_resume_prompt reports it as 'completed'.
C30_InterruptReadsAsCompleted ==
    (pc = "returned" /\ interrupted /\ has) =>
        /\ LastRecord.event = "done"
        /\ LastRecord.result_preview = InterruptedPreview
        /\ SessionSummary(SessionFile(1, lg.file, <<>>, lg.closed)).status = "done"
        /\ BuildResumePrompt(lg.file).status = "completed"

\* C30 witness: the interrupt arrived while the Run was reading, after a
\* tool call had been logged, and run_agent has returned.
C30_Witness ==
    /\ pc = "returned" /\ interrupted /\ has
    /\ Len(lg.file) > 2
    /\ BuildResumePrompt(lg.file).status = "completed"


\* the steps of the tool_call records that carry tool id id
CallSteps(id) ==
    {ToolRecords[j].step : j \in {k \in DOMAIN ToolRecords :
        ToolRecords[k].event = "tool_call" /\ ToolRecords[k].tool_id = id}}

\* C29: every tool_result record whose tool id was logged by a tool_call
\* record carries the step of a tool_call record with that tool id, also
\* when several tool calls are outstanding before their results arrive.
C29_ResultStepIsCallStep ==
    has =>
        \A i \in DOMAIN ToolRecords :
            (ToolRecords[i].event = "tool_result" /\ CallSteps(ToolRecords[i].tool_id) # {})
                => ToolRecords[i].step \in CallSteps(ToolRecords[i].tool_id)

====
